---------------------------- MODULE Spec2Model ----------------------------
(*
  DES-MI (deslib/des/des_mi.py, class DESMI): parameter validation,
  competence estimation, ensemble selection and vote aggregation.

  Conventions
    - Python indices are 0-based and kept 0-based in every value of the
      model (DSEL indices, classifier indices, class labels); a sequence
      position is the index plus one.
    - pct_accuracy is held in hundredths (67 is 0.67); alpha is a record
      [isfloat, v] with v in tenths (9 is 0.9) and isfloat the outcome of
      isinstance(alpha, np.float).
    - A real-valued row whose entries share a positive denominator is a
      record [num |-> <<integers>>, den |-> integer].  den = 0 is the
      0/0 of a division by an empty total (NaN in numpy).
    - A batch holds one or more query samples; every array operation of
      the source works row by row.
*)
EXTENDS Integers, Sequences, FiniteSets

VARIABLES
  alpha,            \* self.alpha
  pct_accuracy,     \* self.pct_accuracy (hundredths)
  voting,           \* self.voting
  DFP,              \* self.DFP
  pool_proba,       \* whether every base classifier has predict_proba
  n_classifiers_,   \* self.n_classifiers_
  n_classes_,       \* self.n_classes_
  k_,               \* self.k_
  DSEL_target_,     \* self.DSEL_target_   (labels of the DSEL samples)
  DSEL_processed_,  \* self.DSEL_processed_ (DSEL sample x classifier, 0/1)
  N_,               \* self.N_
  lastPrep,         \* outcome of the most recent _validate_parameters
  args,             \* the arrays the caller holds for its next call
  op,               \* the most recent operation on the estimator
  ret               \* what that operation returned or raised

hyper   == <<alpha, pct_accuracy, voting, DFP>>
fitted  == <<pool_proba, n_classifiers_, n_classes_, k_, DSEL_target_,
             DSEL_processed_>>
persist == <<hyper, fitted, N_>>
vars    == <<hyper, fitted, N_, lastPrep, args, op, ret>>

-----------------------------------------------------------------------------
(* Bounds of the model *)

MaxClassifiers == 3
MaxComp == 2

-----------------------------------------------------------------------------
(* Input domains *)

Float(v) == [isfloat |-> TRUE, v |-> v]
PyInt(v) == [isfloat |-> FALSE, v |-> 10 * v]

AlphaInputs == {Float(9), Float(10000), Float(0), Float(-9),
                PyInt(1), PyInt(0), PyInt(-1)}
PctInputs == {-50, 0, 10, 40, 67, 75, 100, 150}
PctPredict == {40, 67, 100}
VotingInputs == {"hard", "soft", "weighting"}
CompInputs == 0..MaxComp
BatchSizes == {1, 2}
KInputs == {2}
TargetInputs == {<<0, 0, 0, 1>>, <<0, 1, 0, 1>>}
ProbVectors == {<<0, 2>>, <<1, 1>>, <<1, 0>>}

\* DSEL correctness tables for n classifiers over D samples
StairTable(n, D) == [d \in 1..D |-> [i \in 1..n |-> IF d <= i THEN 1 ELSE 0]]
ParityTable(n, D) ==
  [d \in 1..D |-> [i \in 1..n |-> IF (d + i) % 2 = 0 THEN 1 ELSE 0]]
FixtureTables(n, D) == {StairTable(n, D), ParityTable(n, D)}
AllTables(n, D) == [1..D -> [1..n -> {0, 1}]]
\* The tables of one of the families above
Tables(family, n, D) ==
  CASE family = "stair" -> {StairTable(n, D)}
    [] family = "fixture" -> FixtureTables(n, D)
    [] OTHER -> AllTables(n, D)

\* Neighbour lists of one query: k distinct DSEL indices
Regions(D, k) ==
  {r \in [1..k -> 0..(D - 1)] :
     \A a, b \in 1..k : a # b => r[a] # r[b]}
\* The same lists with the neighbours in ascending index order
SortedRegions(D, k) ==
  {r \in Regions(D, k) : \A a, b \in 1..k : a < b => r[a] < r[b]}
Preds(n, C) == [1..n -> 0..(C - 1)]
\* DFP masks: the pruning never masks every classifier
Masks(n) == {m \in [1..n -> {0, 1}] : \E i \in 1..n : m[i] = 1}
Probs(n) == [1..n -> ProbVectors]
CompRows(n) == [1..n -> CompInputs]

-----------------------------------------------------------------------------
(* Generic helpers *)

RECURSIVE SumSeq(_)
SumSeq(s) == IF s = <<>> THEN 0 ELSE s[1] + SumSeq(Tail(s))

Abs(x) == IF x < 0 THEN -x ELSE x

\* Python int() of the real a / b, b > 0: truncation toward zero
TruncDiv(a, b) == IF a >= 0 THEN a \div b ELSE -((-a) \div b)

\* Python slice s[0:stop]
SliceTo(s, stop) ==
  LET len == Len(s)
      hi == IF stop >= 0 THEN (IF stop < len THEN stop ELSE len)
            ELSE (IF len + stop > 0 THEN len + stop ELSE 0)
  IN SubSeq(s, 1, hi)

\* s[::-1]
Reverse(s) == [p \in 1..Len(s) |-> s[Len(s) + 1 - p]]

\* competences holds a matrix (ndim = 2), vector a 1-D array (ndim = 1)
NoArgs == [competences |-> <<>>, vector |-> <<>>, ndim |-> 0, region |-> <<>>,
           predictions |-> <<>>, probabilities |-> <<>>, mask |-> <<>>]
NoRet == [err |-> "none", msg |-> "", competence |-> <<>>,
          selected |-> <<>>, proba |-> <<>>, label |-> <<>>]

-----------------------------------------------------------------------------
(* DESMI._validate_parameters *)

\* BaseDS._check_predict_proba: the pool must support probability output
CheckPredictProba(proba) == proba

\* pct_accuracy is not range-checked
ValidateOutcomeNoPct(n, pct, a, v, proba) ==
  LET N == TruncDiv(n * pct, 100)
      e == IF N <= 0 THEN <<"ValueError", "N_">>
           ELSE IF a.v <= 0 THEN <<"ValueError", "alpha">>
           ELSE IF ~a.isfloat THEN <<"TypeError", "alpha">>
           ELSE IF v \notin {"soft", "hard"} THEN <<"ValueError", "voting">>
           ELSE IF v = "soft" /\ ~CheckPredictProba(proba)
                THEN <<"UnsupportedCapability", "predict_proba">>
           ELSE <<"none", "">>
  IN [N |-> N, err |-> e[1], msg |-> e[2]]

\* alpha = 0 passes the sign check
ValidateOutcomeZeroAlpha(n, pct, a, v, proba) ==
  LET N == TruncDiv(n * pct, 100)
      e == IF N <= 0 THEN <<"ValueError", "N_">>
           ELSE IF a.v < 0 THEN <<"ValueError", "alpha">>
           ELSE IF ~a.isfloat THEN <<"TypeError", "alpha">>
           ELSE IF pct <= 0 \/ pct > 100 THEN <<"ValueError", "pct_accuracy">>
           ELSE IF v \notin {"soft", "hard"} THEN <<"ValueError", "voting">>
           ELSE IF v = "soft" /\ ~CheckPredictProba(proba)
                THEN <<"UnsupportedCapability", "predict_proba">>
           ELSE <<"none", "">>
  IN [N |-> N, err |-> e[1], msg |-> e[2]]

\* The value stored in N_ and the error raised, in the order of the checks.
\* super()._validate_parameters() (BaseDS) is taken to return normally.
ValidateOutcome(n, pct, a, v, proba) ==
  LET N == TruncDiv(n * pct, 100)
      e == IF N <= 0 THEN <<"ValueError", "N_">>
           ELSE IF a.v <= 0 THEN <<"ValueError", "alpha">>
           ELSE IF ~a.isfloat THEN <<"TypeError", "alpha">>
           ELSE IF pct <= 0 \/ pct > 100 THEN <<"ValueError", "pct_accuracy">>
           ELSE IF v \notin {"soft", "hard"} THEN <<"ValueError", "voting">>
           ELSE IF v = "soft" /\ ~CheckPredictProba(proba)
                THEN <<"UnsupportedCapability", "predict_proba">>
           ELSE <<"none", "">>
  IN [N |-> N, err |-> e[1], msg |-> e[2]]

ValidateParameters ==
  LET o == ValidateOutcome(n_classifiers_, pct_accuracy, alpha, voting,
                           pool_proba)
  IN /\ N_' = o.N
     /\ lastPrep' = IF o.err = "none" THEN "ok" ELSE "failed"
     /\ op' = "_validate_parameters"
     /\ ret' = [NoRet EXCEPT !.err = o.err, !.msg = o.msg]
     /\ UNCHANGED <<hyper, fitted, args>>

\* Assignment of the hyper-parameters DESMI.__init__ stores (set_params)
SetParams(a, pct, v, d) ==
  /\ <<a, pct, v, d>> # <<alpha, pct_accuracy, voting, DFP>>
  /\ alpha' = a
  /\ pct_accuracy' = pct
  /\ voting' = v
  /\ DFP' = d
  /\ op' = "set_params"
  /\ ret' = NoRet
  /\ UNCHANGED <<fitted, N_, lastPrep, args>>

-----------------------------------------------------------------------------
(* DESMI.estimate_competence *)

\* np.bincount(target): position c + 1 holds the number of labels equal to c
BinCount(target) ==
  LET top == CHOOSE m \in {target[d] : d \in 1..Len(target)} :
               \A d \in 1..Len(target) : target[d] <= m
  IN [c \in 1..(top + 1) |->
        Cardinality({d \in 1..Len(target) : target[d] = c - 1})]

\* floor(10^6 / (1 + exp(x / 10))) for the exponents the inputs produce
SigmoidMicro(x) ==
  CASE x = 9 -> 289050 [] x = 18 -> 141851 [] x = 27 -> 62973
    [] x = 36 -> 26596 [] x = 45 -> 10986  [] x = 54 -> 4496
    [] x = 63 -> 1832  [] x = 72 -> 746
    [] x = 10 -> 268941 [] x = 20 -> 119202 [] x = 30 -> 47425
    [] x = 40 -> 17986  [] x = 50 -> 6692   [] x = 60 -> 2472
    [] x = 70 -> 911    [] x = 80 -> 335

\* 1. / (1 + np.exp(alpha * num)) in millionths.  np.exp overflows to inf
\* above 709.78 (the weight is then exactly 0.0) and underflows to 0.0
\* below -745.13 (the weight is then exactly 1.0).
RawWeight(a, num) ==
  LET x == a.v * num
  IN IF x > 7097 THEN 0
     ELSE IF x < -7451 THEN 1000000
     ELSE IF x = 0 THEN 500000
     ELSE IF x > 0 THEN SigmoidMicro(x)
     ELSE 1000000 - SigmoidMicro(-x)

\* sklearn.preprocessing.normalize(weight, norm='l1'): the divisor of a row;
\* a row whose norm is 0 is divided by 1 and stays all zero
L1Norm(w) ==
  LET norm == SumSeq([j \in 1..Len(w) |-> Abs(w[j])])
  IN IF norm = 0 THEN 1 ELSE norm

\* The raw weights of one query's neighbours
NeighbourWeights(r) ==
  LET class_frequency == BinCount(DSEL_target_)
  IN [j \in 1..Len(r) |->
        RawWeight(alpha, class_frequency[DSEL_target_[r[j] + 1] + 1])]

\* One row per query sample: [num |-> per classifier, den |-> L1 norm],
\* the competence of classifier i being num[i + 1] / den.
EstimateCompetenceOp(region) ==
  LET row(r) ==
        LET w == NeighbourWeights(r)
        IN [num |-> [i \in 1..n_classifiers_ |->
                       SumSeq([j \in 1..Len(r) |->
                                 DSEL_processed_[r[j] + 1][i] * w[j]])],
            den |-> L1Norm(w)]
  IN [s \in 1..Len(region) |-> row(region[s])]

EstimateCompetence ==
  /\ args.region # <<>>
  /\ op' = "estimate_competence"
  /\ ret' = [NoRet EXCEPT !.competence = EstimateCompetenceOp(args.region)]
  /\ UNCHANGED <<persist, lastPrep, args>>

-----------------------------------------------------------------------------
(* DESMI.select *)

\* The indices of row in ascending order of value: index i comes after
\* every index of smaller value and after the tied indices that come first:
\* the lower ones when tiesAscending, the higher ones otherwise.
SortedIndices(row, tiesAscending) ==
  LET n == Len(row)
      rank(i) == Cardinality({j \in 1..n :
                    \/ row[j] < row[i]
                    \/ (row[j] = row[i] /\ tiesAscending /\ j < i)
                    \/ (row[j] = row[i] /\ ~tiesAscending /\ j > i)})
  IN [pos \in 1..n |-> (CHOOSE i \in 1..n : rank(i) = pos - 1) - 1]

\* Equal values come out in descending index order
ArgsortTiesDescending(row) == SortedIndices(row, FALSE)

\* np.argsort(row): indices in ascending order of value.  The default kind
\* sorts a row of at most 16 entries by insertion, which keeps equal
\* values in ascending index order.
Argsort(row) == SortedIndices(row, TRUE)

\* The reversal [:, ::-1] is left out
SelectOpNoReverse(competences, ndim) ==
  LET rows == IF ndim < 2 THEN <<competences>> ELSE competences
  IN [s \in 1..Len(rows) |-> SliceTo(Argsort(rows[s]), N_)]

\* competences: a matrix of rows (ndim = 2) or a single vector (ndim = 1)
SelectOp(competences, ndim) ==
  LET rows == IF ndim < 2 THEN <<competences>> ELSE competences
  IN [s \in 1..Len(rows) |-> SliceTo(Reverse(Argsort(rows[s])), N_)]

\* select that also stores the clamped ensemble size
SelectStoringN ==
  /\ args.ndim > 0
  /\ op' = "select"
  /\ ret' = [NoRet EXCEPT
               !.selected = SelectOp(IF args.ndim < 2 THEN args.vector
                                     ELSE args.competences, args.ndim)]
  /\ N_' = IF N_ > n_classifiers_ THEN n_classifiers_ ELSE N_
  /\ UNCHANGED <<hyper, fitted, lastPrep, args>>

Select ==
  /\ args.ndim > 0
  /\ op' = "select"
  /\ ret' = [NoRet EXCEPT
               !.selected = SelectOp(IF args.ndim < 2 THEN args.vector
                                     ELSE args.competences, args.ndim)]
  /\ UNCHANGED <<persist, lastPrep, args>>

-----------------------------------------------------------------------------
(* DESMI.predict_proba_with_ds and DESMI.classify_with_ds *)

\* deslib.util.aggregation.sum_votes_per_class: per sample, the number of
\* votes for each class label 0 .. n_classes - 1
SumVotesPerClass(votes, n_classes) ==
  [s \in 1..Len(votes) |->
     [c \in 1..n_classes |->
        Cardinality({p \in 1..Len(votes[s]) : votes[s][p] = c - 1})]]

\* accuracy * DFP_mask when DFP is set.  A row is passed on through its
\* numerators: its entries share the positive denominator den.
MaskedAccuracy(accuracy, mask) ==
  IF DFP
  THEN [s \in 1..Len(accuracy) |->
          [i \in 1..Len(accuracy[s].num) |-> accuracy[s].num[i] * mask[s][i]]]
  ELSE [s \in 1..Len(accuracy) |-> accuracy[s].num]

\* The tally is divided by the pool size
HardProbaByPool(predictions, selected) ==
  LET votes == [s \in 1..Len(selected) |->
                  [p \in 1..Len(selected[s]) |->
                     predictions[s][selected[s][p] + 1]]]
      tally == SumVotesPerClass(votes, n_classes_)
  IN [s \in 1..Len(selected) |->
        [num |-> tally[s], den |-> n_classifiers_]]

\* votes / votes.sum(axis=1)
HardProba(predictions, selected) ==
  LET votes == [s \in 1..Len(selected) |->
                  [p \in 1..Len(selected[s]) |->
                     predictions[s][selected[s][p] + 1]]]
      tally == SumVotesPerClass(votes, n_classes_)
  IN [s \in 1..Len(selected) |->
        [num |-> tally[s], den |-> SumSeq(tally[s])]]

\* np.mean of the selected probability vectors (entries held in halves)
SoftProba(probabilities, selected) ==
  [s \in 1..Len(selected) |->
     [num |-> [c \in 1..n_classes_ |->
                 SumSeq([p \in 1..Len(selected[s]) |->
                           probabilities[s][selected[s][p] + 1][c]])],
      den |-> 2 * Len(selected[s])]]

\* The aggregation of the selected classifiers' outputs.  A None
\* probabilities raises TypeError when soft voting subscripts it.
Aggregate(predictions, probabilities, selected) ==
  IF voting = "hard"
  THEN [err |-> "none", selected |-> selected,
        proba |-> HardProba(predictions, selected)]
  ELSE IF probabilities = <<>>
  THEN [err |-> "TypeError", selected |-> <<>>, proba |-> <<>>]
  ELSE [err |-> "none", selected |-> selected,
        proba |-> SoftProba(probabilities, selected)]

\* estimate_competence, the DFP mask, select, then the aggregation.  A None
\* DFP_mask raises TypeError in accuracy * DFP_mask.
PredictProbaOp(predictions, probabilities, region, mask) ==
  LET accuracy == EstimateCompetenceOp(region)
      selected == SelectOp(MaskedAccuracy(accuracy, mask), 2)
  IN IF DFP /\ mask = <<>>
     THEN [err |-> "TypeError", selected |-> <<>>, proba |-> <<>>]
     ELSE Aggregate(predictions, probabilities, selected)

RECURSIVE ArgmaxScan(_, _, _, _)
\* Left-to-right scan keeping the best position; onTie makes an equal
\* entry replace the best one
ArgmaxScan(row, c, best, onTie) ==
  IF c > Len(row) THEN best - 1
  ELSE IF row[c] > row[best] \/ (onTie /\ row[c] = row[best])
       THEN ArgmaxScan(row, c + 1, c, onTie)
       ELSE ArgmaxScan(row, c + 1, best, onTie)

\* The last position of the maximum
ArgmaxLast(row) == ArgmaxScan(row, 1, 1, TRUE)

\* np.argmax of a row: the first position of the maximum
Argmax(row) == ArgmaxScan(row, 1, 1, FALSE)

PredictProba ==
  LET r == PredictProbaOp(args.predictions, args.probabilities, args.region,
                          args.mask)
  IN /\ args.region # <<>>
     /\ op' = "predict_proba_with_ds"
     /\ ret' = [NoRet EXCEPT !.err = r.err, !.selected = r.selected,
                             !.proba = r.proba]
     /\ UNCHANGED <<persist, lastPrep, args>>

ClassifyOp(predictions, probabilities, region, mask) ==
  LET r == PredictProbaOp(predictions, probabilities, region, mask)
  IN [err |-> r.err,
      label |-> IF r.err = "none"
                THEN [s \in 1..Len(r.proba) |-> Argmax(r.proba[s].num)]
                ELSE <<>>]

Classify ==
  LET r == ClassifyOp(args.predictions, args.probabilities, args.region,
                      args.mask)
  IN /\ args.region # <<>>
     /\ op' = "classify_with_ds"
     /\ ret' = [NoRet EXCEPT !.err = r.err, !.label = r.label]
     /\ UNCHANGED <<persist, lastPrep, args>>

-----------------------------------------------------------------------------
(* Initial states: an estimator whose preparation succeeded, and the
   arrays its caller holds *)

NumClasses(target) == Len(BinCount(target))

InitFitted(nSet, pctSet, aSet, vSet, dSet, ppSet, tgtSet, family) ==
  /\ n_classifiers_ \in nSet
  /\ pct_accuracy \in pctSet
  /\ alpha \in aSet
  /\ voting \in vSet
  /\ DFP \in dSet
  /\ pool_proba \in ppSet
  /\ ValidateOutcome(n_classifiers_, pct_accuracy, alpha, voting,
                     pool_proba).err = "none"
  /\ N_ = ValidateOutcome(n_classifiers_, pct_accuracy, alpha, voting,
                          pool_proba).N
  /\ lastPrep = "ok"
  /\ DSEL_target_ \in tgtSet
  /\ n_classes_ = NumClasses(DSEL_target_)
  /\ k_ \in KInputs
  /\ DSEL_processed_ \in Tables(family, n_classifiers_, Len(DSEL_target_))
  /\ op = "fit"
  /\ ret = NoRet

\* Arguments the selected voting mode and DFP setting do not read are fixed:
\* probabilities is None under hard voting, DFP_mask is None without DFP.
IsQueryInput(a, regions, masks) ==
  LET n == n_classifiers_
  IN \E p \in (IF voting = "hard" THEN Preds(n, n_classes_)
               ELSE {[i \in 1..n |-> 0]}) :
       \E q \in (IF voting = "hard" THEN {<<>>}
                 ELSE {<<v>> : v \in Probs(n)}) :
         \E r \in regions :
           \E m \in (IF DFP THEN {<<v>> : v \in masks} ELSE {<<>>}) :
             a = [NoArgs EXCEPT !.predictions = <<p>>, !.probabilities = q,
                                !.region = <<r>>, !.mask = m]

\* A competence vector, or a competence matrix of one of the batch sizes
IsSelectInput(a) ==
  LET rows == CompRows(n_classifiers_)
  IN \/ \E c \in rows : a = [NoArgs EXCEPT !.vector = c, !.ndim = 1]
     \/ \E m \in BatchSizes :
          \E c \in [1..m -> rows] :
            a = [NoArgs EXCEPT !.competences = c, !.ndim = 2]

-----------------------------------------------------------------------------
(* Parameter validation: any assignment of hyper-parameters, then validation *)

InitValidate ==
  /\ InitFitted(1..MaxClassifiers, PctInputs, AlphaInputs, VotingInputs,
                {FALSE}, BOOLEAN, {<<0, 0, 0, 1>>}, "stair")
  /\ args = NoArgs

SetAnyParams ==
  \E a \in AlphaInputs, pct \in PctInputs, v \in VotingInputs :
    SetParams(a, pct, v, DFP)

NextValidate == SetAnyParams \/ ValidateParameters

SpecValidate == InitValidate /\ [][NextValidate]_vars

-----------------------------------------------------------------------------
(* Selection: select applied to competence vectors and matrices *)

InitSelect ==
  /\ InitFitted(1..MaxClassifiers, PctInputs, {Float(9)}, {"hard"}, {FALSE},
                {TRUE}, {<<0, 0, 0, 1>>}, "stair")
  /\ IsSelectInput(args)

NextSelect == Select

SpecSelect == InitSelect /\ [][NextSelect]_vars

-----------------------------------------------------------------------------
(* Competence estimation over every correctness table *)

InitCompetence ==
  /\ InitFitted({2}, {67, 100}, {Float(9), Float(10000)}, {"hard"}, {FALSE},
                {TRUE}, TargetInputs, "all")
  /\ args \in {[NoArgs EXCEPT !.region = <<r>>] :
                 r \in Regions(Len(DSEL_target_), k_)}

NextCompetence == EstimateCompetence

SpecCompetence == InitCompetence /\ [][NextCompetence]_vars

-----------------------------------------------------------------------------
(* Prediction for one query sample *)

InitPredict ==
  /\ InitFitted(2..MaxClassifiers, PctPredict, {Float(9)}, {"hard", "soft"},
                BOOLEAN, {TRUE}, {<<0, 0, 0, 1>>}, "fixture")
  /\ IsQueryInput(args, SortedRegions(Len(DSEL_target_), k_),
                  Masks(n_classifiers_))

NextPredict == PredictProba \/ Classify

SpecPredict == InitPredict /\ [][NextPredict]_vars

-----------------------------------------------------------------------------
(* Life cycle: hyper-parameters are reassigned, the estimator is prepared
   again, and every operation is called in any order *)

LifeAlpha == {Float(9), PyInt(1), Float(-9)}
LifePct == {10, 67, 150}
LifeVoting == {"hard", "weighting"}
LifeRegions == {<<0, 3>>, <<2, 3>>}
LifeMasks(n) == {[i \in 1..n |-> 1], [i \in 1..n |-> IF i = n THEN 0 ELSE 1]}
LifePreds(n) == {[i \in 1..n |-> 0], [i \in 1..n |-> i % 2]}
LifeArgs ==
  LET n == n_classifiers_
  IN {[NoArgs EXCEPT !.predictions = <<p>>,
                     !.probabilities = <<[i \in 1..n |-> <<1, 1>>]>>,
                     !.region = <<r>>, !.mask = <<m>>,
                     !.vector = c, !.ndim = 1] :
        p \in LifePreds(n), r \in LifeRegions,
        m \in LifeMasks(n), c \in LifeMasks(n)}

Init ==
  /\ InitFitted({MaxClassifiers}, {67}, {Float(9)}, {"hard"}, {FALSE}, {TRUE},
                {<<0, 0, 0, 1>>}, "stair")
  /\ args \in LifeArgs

SetLifeParams ==
  \E a \in LifeAlpha, pct \in LifePct, v \in LifeVoting, d \in BOOLEAN :
    SetParams(a, pct, v, d)

\* The caller prepares the arrays of its next call
NewQuery ==
  /\ args' \in LifeArgs
  /\ args' # args
  /\ op' = "none"
  /\ ret' = NoRet
  /\ UNCHANGED <<persist, lastPrep>>

Next ==
  \/ SetLifeParams
  \/ ValidateParameters
  \/ NewQuery
  \/ EstimateCompetence
  \/ Select
  \/ PredictProba
  \/ Classify

Spec == Init /\ [][Next]_vars

-----------------------------------------------------------------------------
(* Properties *)

\* The rows select works on, and membership of a classifier in a selection
ArgRows == IF args.ndim < 2 THEN <<args.vector>> ELSE args.competences
InRow(sel, i) == \E p \in 1..Len(sel) : sel[p] = i
Classifiers == 0..(n_classifiers_ - 1)

\* C1: with 1 <= N_ <= n_classifiers_, select returns for every row exactly
\* N_ distinct classifier indices within [0, n_classifiers_), in order of
\* non-increasing competence, and no classifier left out is more competent
\* than a selected one; a 1-D vector gives one such row.
SelectContract ==
  op = "select" =>
    /\ Len(ret.selected) = Len(ArgRows)
    /\ \A s \in 1..Len(ArgRows) :
         LET sel == ret.selected[s]
             row == ArgRows[s]
         IN /\ Len(sel) = N_
            /\ \A p \in 1..Len(sel) : sel[p] \in Classifiers
            /\ \A p, q \in 1..Len(sel) : p # q => sel[p] # sel[q]
            /\ \A p, q \in 1..Len(sel) :
                 p < q => row[sel[p] + 1] >= row[sel[q] + 1]
            /\ \A j \in Classifiers, p \in 1..Len(sel) :
                 ~InRow(sel, j) => row[j + 1] <= row[sel[p] + 1]

\* A two-row matrix whose first row is strictly increasing, with fewer
\* classifiers selected than the pool holds
SelectContractSeen ==
  /\ op = "select"
  /\ args.ndim = 2
  /\ Len(args.competences) = 2
  /\ N_ < n_classifiers_
  /\ \A i \in 1..(n_classifiers_ - 1) :
       args.competences[1][i] < args.competences[1][i + 1]
  /\ ret.selected[1][1] = n_classifiers_ - 1

FloorN == (n_classifiers_ * pct_accuracy) \div 100
PctLegal == pct_accuracy > 0 /\ pct_accuracy <= 100
AlphaPositive == alpha.v > 0

\* C3 as stated: an accepted configuration leaves N_ = floor(n * pct) with
\* 1 <= N_ <= n; floor(n * pct) <= 0 is rejected with ValueError; every
\* pct_accuracy outside (0, 1] is rejected with ValueError.
SelectionSizeValidated ==
  op = "_validate_parameters" =>
    /\ ret.err = "none" =>
         (N_ = FloorN /\ 1 <= N_ /\ N_ <= n_classifiers_)
    /\ FloorN <= 0 => ret.err = "ValueError"
    /\ ~PctLegal => ret.err = "ValueError"

\* C3 amended: as C3, except that pct_accuracy > 1 together with a positive
\* alpha that is not a float is rejected with TypeError, the type check of
\* alpha coming before the range check of pct_accuracy.
SelectionSizeValidatedInOrder ==
  op = "_validate_parameters" =>
    /\ ret.err = "none" =>
         (N_ = FloorN /\ 1 <= N_ /\ N_ <= n_classifiers_)
    /\ FloorN <= 0 => ret.err = "ValueError"
    /\ ~PctLegal =>
         ret.err = (IF pct_accuracy > 100 /\ AlphaPositive /\ ~alpha.isfloat
                    THEN "TypeError" ELSE "ValueError")

\* pct_accuracy above 1 met by the type error of alpha
PctAboveOneTypeErrorSeen ==
  /\ op = "_validate_parameters"
  /\ pct_accuracy > 100
  /\ ret.err = "TypeError"
  /\ N_ > n_classifiers_

\* C7 as stated: non-positive alpha is rejected with ValueError, positive
\* non-float alpha with TypeError, a voting other than hard and soft with
\* ValueError, and a positive float alpha with legal pct_accuracy and voting
\* is accepted.
AlphaVotingValidated ==
  op = "_validate_parameters" =>
    /\ ~AlphaPositive => ret.err = "ValueError"
    /\ (AlphaPositive /\ ~alpha.isfloat) => ret.err = "TypeError"
    /\ voting \notin {"hard", "soft"} => ret.err = "ValueError"
    /\ (AlphaPositive /\ alpha.isfloat /\ PctLegal
        /\ voting \in {"hard", "soft"}) => ret.err = "none"

\* C7 amended: the checks run in the order N_, sign of alpha, type of alpha,
\* pct_accuracy, voting, predict_proba, and the first one that fails decides
\* the error.
AlphaVotingValidatedInOrder ==
  op = "_validate_parameters" =>
    /\ ~AlphaPositive => ret.err = "ValueError"
    /\ (AlphaPositive /\ ~alpha.isfloat) =>
         ret.err = (IF N_ >= 1 THEN "TypeError" ELSE "ValueError")
    /\ voting \notin {"hard", "soft"} =>
         ret.err = (IF AlphaPositive /\ ~alpha.isfloat /\ N_ >= 1
                    THEN "TypeError" ELSE "ValueError")
    /\ (AlphaPositive /\ alpha.isfloat /\ PctLegal
        /\ voting \in {"hard", "soft"}) =>
         (ret.err = "none" <=> (N_ >= 1 /\ (voting = "hard" \/ pool_proba)))

\* A positive integer alpha met by the N_ check, and an unknown voting met
\* by the type error of alpha
AlphaVotingOrderSeen ==
  /\ op = "_validate_parameters"
  /\ AlphaPositive
  /\ ~alpha.isfloat
  /\ \/ N_ < 1 /\ ret.err = "ValueError"
     \/ voting = "weighting" /\ ret.err = "TypeError"

\* C4: every row predict_proba_with_ds returns sums to 1.  Hard voting: the
\* entry of class c is the number of the N_ selected classifiers predicting
\* c, over N_.  Soft voting: the row is the mean of the N_ selected
\* probability vectors, and sums to 1 when each of them does.
ProbaRowsSumToOne ==
  (op = "predict_proba_with_ds" /\ ret.err = "none") =>
    \A s \in 1..Len(ret.proba) :
      LET sel == ret.selected[s]
          pr == ret.proba[s]
      IN IF voting = "hard"
         THEN /\ pr.den = N_
              /\ \A c \in 1..n_classes_ :
                   pr.num[c] = Cardinality({i \in Classifiers :
                                  /\ InRow(sel, i)
                                  /\ args.predictions[s][i + 1] = c - 1})
              /\ SumSeq(pr.num) = pr.den
         ELSE /\ pr.den = 2 * N_
              /\ \A c \in 1..n_classes_ :
                   pr.num[c] = SumSeq([p \in 1..Len(sel) |->
                                  args.probabilities[s][sel[p] + 1][c]])
              /\ (\A p \in 1..Len(sel) :
                    SumSeq(args.probabilities[s][sel[p] + 1]) = 2)
                   => SumSeq(pr.num) = pr.den

\* Predictions [0, 1, 0] with classifiers 0 and 2 selected give [1.0, 0.0]
HardVoteScenarioSeen ==
  /\ op = "predict_proba_with_ds"
  /\ voting = "hard"
  /\ n_classifiers_ = 3
  /\ N_ = 2
  /\ args.predictions = <<<<0, 1, 0>>>>
  /\ InRow(ret.selected[1], 0)
  /\ InRow(ret.selected[1], 2)
  /\ ret.proba[1] = [num |-> <<2, 0>>, den |-> 2]

\* C5: classify_with_ds returns for every sample the lowest class index
\* among those of maximal probability in predict_proba_with_ds's row for
\* the same arguments.
ClassifyIsFirstArgmax ==
  (op = "classify_with_ds" /\ ret.err = "none") =>
    LET pr == PredictProbaOp(args.predictions, args.probabilities,
                             args.region, args.mask).proba
    IN /\ Len(ret.label) = Len(pr)
       /\ \A s \in 1..Len(pr) :
            LET l == ret.label[s] + 1
            IN /\ l \in 1..n_classes_
               /\ \A c \in 1..n_classes_ : pr[s].num[c] <= pr[s].num[l]
               /\ \A c \in 1..(l - 1) : pr[s].num[c] < pr[s].num[l]

\* Two classes of equal probability, and class 1 winning outright
ClassifyTieSeen ==
  /\ op = "classify_with_ds"
  /\ ret.label = <<0>>
  /\ LET pr == PredictProbaOp(args.predictions, args.probabilities,
                              args.region, args.mask).proba
     IN pr[1].num[1] = pr[1].num[2] /\ pr[1].den > 0

\* C2: with DFP set and at least N_ classifiers unmasked for a sample, no
\* classifier whose mask entry is 0 is in that sample's selection.
MaskedNeverSelected ==
  (op = "predict_proba_with_ds" /\ DFP /\ ret.err = "none") =>
    \A s \in 1..Len(ret.selected) :
      Cardinality({i \in Classifiers : args.mask[s][i + 1] = 1}) >= N_
        => \A p \in 1..Len(ret.selected[s]) :
             args.mask[s][ret.selected[s][p] + 1] = 1

\* C6: a competence is the weighted share of the neighbours the classifier
\* gets right, the normalised weights of a sample summing to 1: it lies in
\* [0, 1], is 0 when the classifier is wrong on every neighbour and 1 when
\* it is right on every neighbour.
CompetenceIsWeightedShare ==
  op = "estimate_competence" =>
    \A s \in 1..Len(ret.competence) :
      LET c == ret.competence[s]
          r == args.region[s]
          flag(i, j) == DSEL_processed_[r[j] + 1][i]
      IN /\ c.den > 0
         /\ SumSeq(NeighbourWeights(r)) = c.den
         /\ \A i \in 1..n_classifiers_ :
              /\ 0 <= c.num[i] /\ c.num[i] <= c.den
              /\ (\A j \in 1..Len(r) : flag(i, j) = 0) => c.num[i] = 0
              /\ (\A j \in 1..Len(r) : flag(i, j) = 1) => c.num[i] = c.den

\* C8: no prediction returns a result while the most recent
\* _validate_parameters has failed.
FailedPreparationBlocksPrediction ==
  ~(/\ lastPrep = "failed"
    /\ op \in {"predict_proba_with_ds", "classify_with_ds"}
    /\ ret.err = "none")

PredictionOps == {"estimate_competence", "select", "predict_proba_with_ds",
                  "classify_with_ds"}

\* C9: a call of estimate_competence, select, predict_proba_with_ds or
\* classify_with_ds leaves the DSEL labels, the correctness table, N_,
\* n_classifiers_, n_classes_ and the hyper-parameters as they were.
PredictionLeavesStateUnchanged ==
  [][op' \in PredictionOps => persist' = persist]_vars

\* select called on an estimator whose N_ exceeds the pool size
SelectAfterOversizedNSeen ==
  /\ op = "select"
  /\ N_ > n_classifiers_
  /\ Len(ret.selected[1]) = n_classifiers_

=============================================================================
